---- MODULE Spec2Model ----
(***************************************************************************)
(* Model of the data platform's batch processor                            *)
(* (src/batch-processor/processor.py) and of the dashboard's loader and    *)
(* duplicate-row panel (src/analytics-dashboard/dashboard.py).             *)
(*                                                                         *)
(* Object payloads are described by what pandas' parsers see in the bytes: *)
(* whether they decode as UTF-8, whether there is any line at all, which   *)
(* character separates the fields, the header and the lines as text, and   *)
(* (for JSON documents) the table read_json builds.  Cells of a DataFrame  *)
(* are typed values with their text.                                       *)
(***************************************************************************)
EXTENDS Integers, Sequences, FiniteSets, TLC

VARIABLES
    inputBucket,   \* "input-data": object name -> payload, for the objects present
    outExists,     \* whether bucket "batch-data" exists
    outObjects,    \* "batch-data": object name -> content, for the objects present
    pc,            \* position of the batch script
    objects,       \* processor.py: objects (the listing, in the order returned)
    idx,           \* processor.py: position of the for loop over objects
    frames,        \* processor.py: frames
    df,            \* processor.py: df after pd.concat
    report,        \* processor.py: report
    failure,       \* the exception that ended the run, "" when none
    writes,        \* storage writes the current run has made to "batch-data"
    reportBefore,  \* content of "batch-data" when the current run started
    runInput,      \* "input-data" when the current run started
    prevRun,       \* input and published content of the last successful run
    runs,          \* batch runs started so far
    edits,         \* uploads and removals made so far
    selected_file, \* dashboard.py: selected_file
    dashPc,        \* position of the dashboard script
    dashDf,        \* dashboard.py: outcome of load_cached_data(selected_file)
    numeric_cols,  \* dashboard.py: numeric_cols
    dupPanel,      \* dashboard.py: what the Duplicate Rows panel showed
    batchPanel     \* dashboard.py: what the Batch Analytics Output section showed

batchVars == <<outExists, outObjects, pc, objects, idx, frames, df, report,
               failure, writes, reportBefore, runInput, prevRun, runs>>
dashVars == <<selected_file, dashPc, dashDf, numeric_cols, dupPanel, batchPanel>>
vars == <<inputBucket, edits, batchVars, dashVars>>

(***************************************************************************)
(* Bounds of the model.                                                    *)
(***************************************************************************)
MaxObjects == 2
MaxRuns == 2
MaxEdits == 1

(***************************************************************************)
(* Generic helpers.                                                        *)
(***************************************************************************)
Range(s) == {s[i] : i \in DOMAIN s}

RECURSIVE SumSeq(_)
SumSeq(s) == IF s = <<>> THEN 0 ELSE Head(s) + SumSeq(Tail(s))

RECURSIVE SetToSeqs(_)
\* every ordering of a finite set, as sequences
SetToSeqs(S) ==
    IF S = {} THEN {<<>>}
    ELSE UNION {{<<x>> \o t : t \in SetToSeqs(S \ {x})} : x \in S}

MinOf(S) == CHOOSE x \in S : \A y \in S : x <= y
MaxOf(S) == CHOOSE x \in S : \A y \in S : x >= y

(***************************************************************************)
(* Text: str.lower(), str.endswith(), lexical comparison, join.            *)
(***************************************************************************)
LowerChar(c) ==
    CASE c = "A" -> "a" [] c = "B" -> "b" [] c = "C" -> "c" [] c = "D" -> "d"
      [] c = "E" -> "e" [] c = "J" -> "j" [] c = "N" -> "n" [] c = "O" -> "o"
      [] c = "S" -> "s" [] c = "T" -> "t" [] c = "V" -> "v" [] c = "X" -> "x"
      [] OTHER -> c

RECURSIVE Lower(_)
Lower(s) ==
    IF Len(s) = 0 THEN ""
    ELSE LowerChar(SubSeq(s, 1, 1)) \o Lower(SubSeq(s, 2, Len(s)))

EndsWith(s, suffix) ==
    /\ Len(s) >= Len(suffix)
    /\ SubSeq(s, Len(s) - Len(suffix) + 1, Len(s)) = suffix

\* code point of the characters object names are made of
CharCode(c) ==
    CASE c = "." -> 46 [] c = "E" -> 69
      [] c = "a" -> 97 [] c = "b" -> 98 [] c = "c" -> 99 [] c = "d" -> 100
      [] c = "e" -> 101 [] c = "j" -> 106 [] c = "n" -> 110 [] c = "o" -> 111
      [] c = "s" -> 115 [] c = "t" -> 116 [] c = "v" -> 118 [] c = "x" -> 120
      [] OTHER -> 0

RECURSIVE StrLess(_, _)
\* a < b, as Python compares str
StrLess(a, b) ==
    IF Len(b) = 0 THEN FALSE
    ELSE IF Len(a) = 0 THEN TRUE
    ELSE LET ca == CharCode(SubSeq(a, 1, 1))
             cb == CharCode(SubSeq(b, 1, 1))
         IN IF ca # cb THEN ca < cb
            ELSE StrLess(SubSeq(a, 2, Len(a)), SubSeq(b, 2, Len(b)))

RECURSIVE Join(_, _)
Join(fields, sep) ==
    IF Len(fields) = 0 THEN ""
    ELSE IF Len(fields) = 1 THEN fields[1]
    ELSE fields[1] \o sep \o Join(Tail(fields), sep)

(***************************************************************************)
(* Cells and DataFrames.                                                   *)
(***************************************************************************)
IntTexts == {"1", "2", "3", "5", "9", "10", "20", "30"}
BoolTexts == {"True", "False"}

NumOf(s) ==
    CASE s \in {"1", "1.0"} -> 1 [] s \in {"2", "2.0"} -> 2
      [] s \in {"3", "3.0"} -> 3 [] s \in {"5", "5.0"} -> 5
      [] s \in {"9", "9.0"} -> 9 [] s \in {"10", "10.0"} -> 10
      [] s \in {"20", "20.0"} -> 20 [] s \in {"30", "30.0"} -> 30
      [] s = "True" -> 1 [] OTHER -> 0

NaN == [t |-> "nan", s |-> "nan"]
Cell(t, s) == [t |-> t, s |-> s]

NoFrame == [cols |-> <<>>, dtypes |-> <<>>, rows |-> <<>>]
ColSet(f) == Range(f.cols)
Column(f, c) == [i \in DOMAIN f.rows |-> f.rows[i][c]]

Ok(f) == [tag |-> "ok", df |-> f, err |-> ""]
Raise(e) == [tag |-> "raise", df |-> NoFrame, err |-> e]

(***************************************************************************)
(* pandas: type inference of a parsed text column (read_csv).              *)
(***************************************************************************)
IndexOf(seq, x) == CHOOSE i \in DOMAIN seq : seq[i] = x

InferDtype(texts, nrows) ==
    IF nrows = 0 THEN "object"
    ELSE IF texts \subseteq {""} THEN "float64"
    ELSE IF texts \subseteq IntTexts THEN "int64"
    ELSE IF texts \subseteq (IntTexts \cup {""}) THEN "float64"
    ELSE IF texts \subseteq BoolTexts THEN "bool"
    ELSE "object"

ParseCell(dtype, texts, s) ==
    CASE dtype = "int64" -> Cell("int", s)
      [] dtype = "float64" -> IF s = "" THEN NaN ELSE Cell("float", s \o ".0")
      [] dtype = "bool" -> Cell("bool", s)
      [] OTHER -> IF s = "" THEN NaN
                  ELSE IF texts \subseteq (BoolTexts \cup {""}) THEN Cell("bool", s)
                  ELSE Cell("str", s)

InferFrame(header, lines) ==
    LET texts(c) == {lines[i][IndexOf(header, c)] : i \in DOMAIN lines}
        dt(c) == InferDtype(texts(c), Len(lines))
    IN [cols |-> header,
        dtypes |-> [c \in Range(header) |-> dt(c)],
        rows |-> [i \in DOMAIN lines |->
                    [c \in Range(header) |->
                        ParseCell(dt(c), texts(c), lines[i][IndexOf(header, c)])]]]

\* the fields a line splits into under separator sep, when its fields are
\* separated by delim and contain no other candidate separator
SplitLine(fields, delim, sep) ==
    IF sep = delim \/ Len(fields) <= 1 THEN fields ELSE <<Join(fields, delim)>>

\* pd.read_csv(io.BytesIO(raw), sep=sep, encoding=enc)
ReadCsv(raw, sep, enc) ==
    IF raw.empty THEN Raise("EmptyDataError")
    ELSE IF enc = "utf-8" /\ ~raw.utf8 THEN Raise("UnicodeDecodeError")
    ELSE Ok(InferFrame(SplitLine(raw.header, raw.delim, sep),
                       [i \in DOMAIN raw.lines |->
                            SplitLine(raw.lines[i], raw.delim, sep)]))

\* pd.read_json(io.BytesIO(raw), lines=lines)
ReadJson(raw, lines) ==
    IF raw.json = (IF lines THEN "lines" ELSE "doc")
    THEN Ok(raw.jframe) ELSE Raise("ValueError")

(***************************************************************************)
(* dashboard.py: load_dataset.                                             *)
(***************************************************************************)
Delimiters == <<",", "\t", ";", "|">>
FallbackEncodings == <<"latin-1", "iso-8859-1">>

RECURSIVE TryDelimiters(_, _)
\* the first for loop: the first parse with more than one column, if any
TryDelimiters(raw, seps) ==
    IF seps = <<>> THEN Raise("exhausted")
    ELSE LET r == ReadCsv(raw, Head(seps), "utf-8")
         IN IF r.tag = "ok" /\ Len(r.df.cols) > 1 THEN r
            ELSE TryDelimiters(raw, Tail(seps))

RECURSIVE TryEncodings(_, _)
\* the second for loop: read_csv with the default separator, any column count
TryEncodings(raw, encs) ==
    IF encs = <<>> THEN Raise("exhausted")
    ELSE LET r == ReadCsv(raw, ",", Head(encs))
         IN IF r.tag = "ok" THEN r ELSE TryEncodings(raw, Tail(encs))

load_dataset(filename, raw) ==
    LET name == Lower(filename)
        failed(msg) == Raise("Failed to load dataset: " \o msg)
    IN IF EndsWith(name, ".json")
       THEN LET r1 == ReadJson(raw, FALSE)
                r2 == ReadJson(raw, TRUE)
            IN IF r1.tag = "ok" THEN r1
               ELSE IF r2.tag = "ok" THEN r2
               ELSE failed(r2.err)
       ELSE IF EndsWith(name, ".csv") \/ EndsWith(name, ".tsv")
       THEN LET d == TryDelimiters(raw, Delimiters)
                e == TryEncodings(raw, FallbackEncodings)
            IN IF d.tag = "ok" THEN d
               ELSE IF e.tag = "ok" THEN e
               ELSE failed("Could not parse CSV with any delimiter or encoding")
       ELSE failed("Unsupported file format: " \o filename)

(***************************************************************************)
(* pandas: duplicated(), astype(str), isnull(), select_dtypes(), concat(). *)
(***************************************************************************)
Hashable(cell) == cell.t \notin {"list", "dict"}

\* number of rows equal to an earlier row
CountDuplicated(rows) ==
    Cardinality({i \in DOMAIN rows : \E j \in 1..(i - 1) : rows[j] = rows[i]})

\* df.duplicated().sum(): TypeError when a cell cannot be hashed
Duplicated(f) ==
    IF \A i \in DOMAIN f.rows : \A c \in ColSet(f) : Hashable(f.rows[i][c])
    THEN [tag |-> "ok", n |-> CountDuplicated(f.rows)]
    ELSE [tag |-> "raise", n |-> 0]

\* df.astype(str): every cell becomes its text, of type str
AsTypeStr(f) ==
    [cols |-> f.cols,
     dtypes |-> [c \in ColSet(f) |-> "object"],
     rows |-> [i \in DOMAIN f.rows |->
                 [c \in ColSet(f) |-> Cell("str", f.rows[i][c].s)]]]

\* df[c].isnull().sum()
NullCount(f, c) == Cardinality({i \in DOMAIN f.rows : f.rows[i][c].t = "nan"})

\* is_numeric_dtype, which holds of bool as well
IsNumberDtypeOrBool(d) == d \in {"int64", "float64", "bool"}

\* select_dtypes' "number": the numpy number types, which bool is not one of
IsNumberDtype(d) == d \in {"int64", "float64"}

\* pd.api.types.is_numeric_dtype(series) and not pd.api.types.is_bool_dtype(series)
is_numeric_safe(f, c) ==
    f.dtypes[c] \in {"int64", "float64", "bool"} /\ f.dtypes[c] # "bool"

SelectNumber(f) == SelectSeq(f.cols, LAMBDA c : IsNumberDtype(f.dtypes[c]))
SelectNotNumber(f) == SelectSeq(f.cols, LAMBDA c : ~IsNumberDtype(f.dtypes[c]))

\* df[col] = value
SetColumn(f, col, cell, dtype) ==
    [cols |-> IF col \in ColSet(f) THEN f.cols ELSE Append(f.cols, col),
     dtypes |-> [c \in ColSet(f) \cup {col} |->
                    IF c = col THEN dtype ELSE f.dtypes[c]],
     rows |-> [i \in DOMAIN f.rows |->
                 [c \in ColSet(f) \cup {col} |->
                    IF c = col THEN cell ELSE f.rows[i][c]]]]

RECURSIVE UnionCols(_)
\* the columns of the frames, in order of first appearance
UnionCols(fs) ==
    IF fs = <<>> THEN <<>>
    ELSE LET rest == UnionCols(Tail(fs))
         IN Head(fs).cols \o
            SelectSeq(rest, LAMBDA c : c \notin ColSet(Head(fs)))

\* the common dtype of a column across the frames that are concatenated
ConcatDtype(fs, c) ==
    LET have == {fs[k].dtypes[c] : k \in {k \in DOMAIN fs : c \in ColSet(fs[k])}}
        missing == \E k \in DOMAIN fs : c \notin ColSet(fs[k])
    IN IF ~missing /\ Cardinality(have) = 1 THEN CHOOSE d \in have : TRUE
       ELSE IF have \subseteq {"int64", "float64"} THEN "float64"
       ELSE "object"

ConvertCell(cell, dtype) ==
    IF dtype = "float64" /\ cell.t = "int" THEN Cell("float", cell.s \o ".0")
    ELSE cell

RECURSIVE ConcatRows(_, _, _)
ConcatRows(fs, cols, dtypes) ==
    IF fs = <<>> THEN <<>>
    ELSE [i \in DOMAIN Head(fs).rows |->
            [c \in cols |->
                IF c \in ColSet(Head(fs))
                THEN ConvertCell(Head(fs).rows[i][c], dtypes[c])
                ELSE NaN]]
         \o ConcatRows(Tail(fs), cols, dtypes)

\* pd.concat(frames, ignore_index=True)
Concat(fs) ==
    LET cols == UnionCols(fs)
        dtypes == [c \in Range(cols) |-> ConcatDtype(fs, c)]
    IN [cols |-> cols, dtypes |-> dtypes,
        rows |-> ConcatRows(fs, Range(cols), dtypes)]

(***************************************************************************)
(* processor.py: the report and its serialisation.                         *)
(***************************************************************************)
RECURSIVE GCD(_, _)
GCD(a, b) == IF b = 0 THEN a ELSE GCD(b, a % b)

\* a float that is the quotient of two naturals, as a reduced fraction
Fraction(n, d) == LET g == GCD(n, d) IN <<n \div g, d \div g>>

\* lines 50-55: min, max, mean and nunique of df["Identifier"], through int()
\* and float().  int() of a str (an object column) and int() of nan (no
\* value at all) raise ValueError.
IdentifierStats(f) ==
    LET col == Column(f, "Identifier")
        present == {i \in DOMAIN col : col[i].t # "nan"}
        vals == [i \in present |-> NumOf(col[i].s)]
        nums == {vals[i] : i \in present}
        total == SumSeq([k \in 1..Len(col) |->
                            IF k \in present THEN vals[k] ELSE 0])
    IN IF f.dtypes["Identifier"] = "object" \/ present = {}
       THEN [tag |-> "raise", stats |-> <<>>]
       ELSE [tag |-> "ok",
             stats |-> <<[min |-> MinOf(nums), max |-> MaxOf(nums),
                          mean |-> Fraction(total, Cardinality(present)),
                          unique |-> Cardinality(nums)]>>]

\* lines 36-59, when nothing raises
ReportOf(f) ==
    [total_rows |-> Len(f.rows),
     total_columns |-> Len(f.cols),
     columns |-> [numeric |-> SelectNumber(f),
                  categorical |-> SelectNotNumber(f)],
     identifier_stats |-> IF "Identifier" \in ColSet(f)
                          THEN IdentifierStats(f).stats ELSE <<>>,
     missing_values |-> [k \in DOMAIN f.cols |->
                            <<f.cols[k], NullCount(f, f.cols[k])>>],
     duplicate_rows |-> Duplicated(f).n]

NoReport == <<>>

\* pd.json_normalize(report).to_json(indent=2): one row whose columns are the
\* top-level scalars in their order, then the nested sections flattened with
\* dotted keys; the document is the sequence of its (key, value) members.
Serialize(r) ==
    << <<"total_rows", r.total_rows>>,
       <<"total_columns", r.total_columns>>,
       <<"duplicate_rows", r.duplicate_rows>>,
       <<"columns.numeric", r.columns.numeric>>,
       <<"columns.categorical", r.columns.categorical>> >>
    \o (IF r.identifier_stats = <<>> THEN <<>>
        ELSE LET st == r.identifier_stats[1]
             IN << <<"identifier_stats.min", st.min>>,
                   <<"identifier_stats.max", st.max>>,
                   <<"identifier_stats.mean", st.mean>>,
                   <<"identifier_stats.unique", st.unique>> >>)
    \o [k \in DOMAIN r.missing_values |->
            <<"missing_values." \o r.missing_values[k][1],
              r.missing_values[k][2]>>]

(***************************************************************************)
(* Payloads.                                                               *)
(***************************************************************************)
CsvRaw(utf8, delim, header, lines) ==
    [utf8 |-> utf8, empty |-> FALSE, delim |-> delim, header |-> header,
     lines |-> lines, json |-> "none", jframe |-> NoFrame]

\* zero bytes
EmptyRaw ==
    [utf8 |-> TRUE, empty |-> TRUE, delim |-> ",", header |-> <<>>,
     lines |-> <<>>, json |-> "none", jframe |-> NoFrame]

\* a JSON document; header is what read_csv makes of its text (one header
\* line cut at the commas, no data line)
JsonRaw(kind, header, frame) ==
    [utf8 |-> TRUE, empty |-> FALSE, delim |-> ",", header |-> header,
     lines |-> <<>>, json |-> kind, jframe |-> frame]

TableA == [header |-> <<"id", "val">>,
           lines |-> << <<"1", "10">>, <<"2", "20">> >>]
TableB == [header |-> <<"val", "id">>, lines |-> << <<"30", "3">> >>]
TableIdent == [header |-> <<"Identifier", "flag">>,
               lines |-> << <<"5", "True">>, <<"1", "False">>,
                            <<"5", "True">>, <<"9", "True">> >>]
TableIdentText == [header |-> <<"Identifier", "val">>,
                   lines |-> << <<"x", "1">>, <<"y", "">> >>]
TableSingle == [header |-> <<"id">>, lines |-> << <<"1">>, <<"2">> >>]

Tables == {TableA, TableB, TableIdent, TableIdentText, TableSingle}

JsonNested ==
    [cols |-> <<"id", "tags">>,
     dtypes |-> [c \in {"id", "tags"} |-> IF c = "id" THEN "int64" ELSE "object"],
     rows |-> << [id |-> Cell("int", "1"), tags |-> Cell("list", "[1]")],
                 [id |-> Cell("int", "2"), tags |-> Cell("list", "[2]")] >>]
JsonNestedTwice ==
    [cols |-> <<"id", "tags">>,
     dtypes |-> [c \in {"id", "tags"} |-> IF c = "id" THEN "int64" ELSE "object"],
     rows |-> << [id |-> Cell("int", "1"), tags |-> Cell("list", "[1]")],
                 [id |-> Cell("int", "1"), tags |-> Cell("list", "[1]")] >>]
JsonMixed ==
    [cols |-> <<"k", "tags">>,
     dtypes |-> [c \in {"k", "tags"} |-> "object"],
     rows |-> << [k |-> Cell("int", "1"), tags |-> Cell("list", "[1]")],
                 [k |-> Cell("str", "1"), tags |-> Cell("list", "[1]")] >>]
JsonScalars ==
    [cols |-> <<"k">>,
     dtypes |-> [c \in {"k"} |-> "object"],
     rows |-> << [k |-> Cell("int", "1")], [k |-> Cell("str", "1")],
                 [k |-> Cell("str", "1")] >>]

\* the payloads the dashboard is run on
DashRaws ==
    {CsvRaw(u, d, t.header, t.lines) :
        u \in BOOLEAN, d \in Range(Delimiters), t \in Tables}
    \cup {EmptyRaw}
    \cup {JsonRaw("doc", <<"[{id:1", "tags:[1]}", "{id:2", "tags:[2]}]">>, JsonNested),
          JsonRaw("doc", <<"[{id:1", "tags:[1]}", "{id:1", "tags:[1]}]">>, JsonNestedTwice),
          JsonRaw("lines", <<"{k:1", "tags:[1]}">>, JsonMixed),
          JsonRaw("lines", <<"{k:1}">>, JsonScalars)}

\* the payloads the batch processor is run on
BatchRaws ==
    {CsvRaw(TRUE, ",", t.header, t.lines) :
        t \in {TableA, TableB, TableIdent, TableIdentText}}
    \cup {CsvRaw(FALSE, ",", TableA.header, TableA.lines)}

ObjectNames == {"a.csv", "b.csv", "c.txt"}
DashNames == {"a.csv", "b.tsv", "c.json", "d.txt", "E.CSV"}

ReportName == "analytics_report.json"

\* a report published by an earlier run, over another input
StaleContent ==
    Serialize(ReportOf(Concat(<<SetColumn(ReadCsv(
        CsvRaw(TRUE, ",", TableSingle.header, TableSingle.lines), ",", "utf-8").df,
        "source_file", Cell("str", "old.csv"), "object")>>)))

NoObjects == [n \in {} |-> <<>>]
Put(bucket, name, content) ==
    [n \in DOMAIN bucket \cup {name} |-> IF n = name THEN content ELSE bucket[n]]
Delete(bucket, name) == [n \in DOMAIN bucket \ {name} |-> bucket[n]]

NoPanel == [kind |-> "none", count |-> 0, approximate |-> FALSE, path |-> "none"]

(***************************************************************************)
(* processor.py: one run of the batch script, statement by statement.      *)
(***************************************************************************)
BatchLocalsReset ==
    /\ objects' = <<>>
    /\ idx' = 0
    /\ frames' = <<>>
    /\ df' = NoFrame
    /\ report' = NoReport

\* lines 20-21: the script starts and makes sure the output bucket exists
EnsureBucket ==
    /\ pc = "idle"
    /\ runs < MaxRuns
    /\ runs' = runs + 1
    /\ reportBefore' = outObjects
    /\ runInput' = inputBucket
    /\ failure' = ""
    /\ writes' = IF outExists THEN <<>> ELSE <<"make_bucket">>
    /\ outExists' = TRUE
    /\ pc' = "list"
    /\ UNCHANGED <<inputBucket, edits, outObjects, objects, idx, frames, df,
                   report, prevRun, dashVars>>

\* lines 23-25: the listing, in whatever order the storage service returns it
ListObjects ==
    /\ pc = "list"
    /\ \E listing \in SetToSeqs(DOMAIN inputBucket) :
        /\ objects' = listing
        /\ IF listing = <<>>
           THEN /\ failure' = "RuntimeError: No input files found"
                /\ pc' = "failed"
                /\ UNCHANGED <<idx, frames>>
           ELSE /\ pc' = "load"
                /\ idx' = 1
                /\ frames' = <<>>
                /\ UNCHANGED failure
    /\ UNCHANGED <<inputBucket, edits, outExists, outObjects, df, report, writes,
                   reportBefore, runInput, prevRun, runs, dashVars>>

\* lines 28-32: one turn of the for loop
LoadNext ==
    /\ pc = "load"
    /\ idx <= Len(objects)
    /\ LET name == objects[idx]
           r == ReadCsv(inputBucket[name], ",", "utf-8")
       IN IF r.tag = "raise"
          THEN /\ failure' = r.err
               /\ pc' = "failed"
               /\ UNCHANGED <<idx, frames>>
          ELSE /\ frames' = Append(frames,
                     SetColumn(r.df, "source_file", Cell("str", name), "object"))
               /\ idx' = idx + 1
               /\ UNCHANGED <<failure, pc>>
    /\ UNCHANGED <<inputBucket, edits, outExists, outObjects, objects, df, report,
                   writes, reportBefore, runInput, prevRun, runs, dashVars>>

\* line 34
ConcatFrames ==
    /\ pc = "load"
    /\ idx > Len(objects)
    /\ df' = Concat(frames)
    /\ pc' = "report"
    /\ UNCHANGED <<inputBucket, edits, outExists, outObjects, objects, idx, frames,
                   report, failure, writes, reportBefore, runInput, prevRun, runs,
                   dashVars>>

\* the same statements with the put moved ahead of the identifier analytics
BuildReportPublishingEarly ==
    /\ pc = "report"
    /\ IF "Identifier" \in ColSet(df) /\ IdentifierStats(df).tag = "raise"
       THEN /\ failure' = "ValueError: Identifier"
            /\ pc' = "failed"
            /\ outObjects' = Put(outObjects, ReportName,
                                 << <<"total_rows", Len(df.rows)>>,
                                    <<"total_columns", Len(df.cols)>> >>)
            /\ writes' = Append(writes, "put_object")
            /\ UNCHANGED report
       ELSE /\ report' = ReportOf(df)
            /\ pc' = "publish"
            /\ UNCHANGED <<failure, outObjects, writes>>
    /\ UNCHANGED <<inputBucket, edits, outExists, objects, idx, frames,
                   df, reportBefore, runInput, prevRun, runs, dashVars>>

\* lines 36-59: the report is assembled in memory; int() of a non-numeric
\* Identifier and duplicated() over an unhashable cell raise
BuildReport ==
    /\ pc = "report"
    /\ IF "Identifier" \in ColSet(df) /\ IdentifierStats(df).tag = "raise"
       THEN /\ failure' = "ValueError: Identifier"
            /\ pc' = "failed"
            /\ UNCHANGED report
       ELSE IF Duplicated(df).tag = "raise"
       THEN /\ failure' = "TypeError: unhashable type"
            /\ pc' = "failed"
            /\ UNCHANGED report
       ELSE /\ report' = ReportOf(df)
            /\ pc' = "publish"
            /\ UNCHANGED failure
    /\ UNCHANGED <<inputBucket, edits, outExists, outObjects, objects, idx, frames,
                   df, writes, reportBefore, runInput, prevRun, runs, dashVars>>

\* lines 62-69
Publish ==
    /\ pc = "publish"
    /\ outObjects' = Put(outObjects, ReportName, Serialize(report))
    /\ writes' = Append(writes, "put_object")
    /\ pc' = "done"
    /\ UNCHANGED <<inputBucket, edits, outExists, objects, idx, frames, df, report,
                   failure, reportBefore, runInput, prevRun, runs, dashVars>>

\* line 71 or the uncaught exception: the process ends
Exit ==
    /\ pc \in {"done", "failed"}
    /\ prevRun' = IF pc = "done"
                  THEN <<[input |-> runInput, content |-> outObjects[ReportName]]>>
                  ELSE prevRun
    /\ pc' = "idle"
    /\ BatchLocalsReset
    /\ UNCHANGED <<inputBucket, edits, outExists, outObjects, failure, writes,
                   reportBefore, runInput, runs, dashVars>>

\* an upstream producer puts an object into "input-data" between runs
Upload ==
    /\ pc = "idle"
    /\ edits < MaxEdits
    /\ \E name \in ObjectNames, raw \in BatchRaws :
        /\ Cardinality(DOMAIN inputBucket \cup {name}) <= MaxObjects
        /\ inputBucket' = Put(inputBucket, name, raw)
        /\ inputBucket' # inputBucket
    /\ edits' = edits + 1
    /\ UNCHANGED <<batchVars, dashVars>>

\* an object of "input-data" is removed between runs
Remove ==
    /\ pc = "idle"
    /\ edits < MaxEdits
    /\ \E name \in DOMAIN inputBucket : inputBucket' = Delete(inputBucket, name)
    /\ edits' = edits + 1
    /\ UNCHANGED <<batchVars, dashVars>>

BucketsOf(names, raws, most) ==
    UNION {[S -> raws] : S \in {T \in SUBSET names : Cardinality(T) <= most}}

DashIdle ==
    /\ selected_file = ""
    /\ dashPc = "sidebar"
    /\ dashDf = Raise("")
    /\ numeric_cols = <<>>
    /\ dupPanel = NoPanel
    /\ batchPanel = "none"

BatchIdle ==
    /\ pc = "idle"
    /\ objects = <<>>
    /\ idx = 0
    /\ frames = <<>>
    /\ df = NoFrame
    /\ report = NoReport
    /\ failure = ""
    /\ writes = <<>>
    /\ reportBefore = NoObjects
    /\ runInput = NoObjects
    /\ prevRun = <<>>
    /\ runs = 0
    /\ edits = 0

Init ==
    /\ inputBucket \in BucketsOf(ObjectNames, BatchRaws, MaxObjects)
    /\ outExists \in BOOLEAN
    /\ outObjects \in IF outExists
                      THEN {NoObjects, Put(NoObjects, ReportName, StaleContent)}
                      ELSE {NoObjects}
    /\ BatchIdle
    /\ DashIdle

Next ==
    \/ EnsureBucket
    \/ ListObjects
    \/ LoadNext
    \/ ConcatFrames
    \/ BuildReport
    \/ Publish
    \/ Exit
    \/ Upload
    \/ Remove

Spec == Init /\ [][Next]_vars

(***************************************************************************)
(* dashboard.py: one run of the dashboard script.  Widget calls of the     *)
(* rendering layer (st.metric, st.slider, st.dataframe, st.pyplot) are not *)
(* modelled; what the panels compute and report is.                        *)
(***************************************************************************)
RECURSIVE SortNames(_)
\* sorted(names)
SortNames(S) ==
    IF S = {} THEN <<>>
    ELSE LET least == CHOOSE x \in S : \A y \in S \ {x} : StrLess(x, y)
         IN <<least>> \o SortNames(S \ {least})

\* lines 120-139: the sidebar lists the bucket and the user picks a dataset
DashSelect ==
    /\ dashPc = "sidebar"
    /\ DOMAIN inputBucket # {}
    /\ LET file_names == SortNames(DOMAIN inputBucket)
       IN \E k \in DOMAIN file_names : selected_file' = file_names[k]
    /\ dashPc' = "load"
    /\ UNCHANGED <<inputBucket, edits, batchVars, dashDf, numeric_cols, dupPanel,
                   batchPanel>>

\* lines 147-158: load_cached_data; a failure is shown and the script stops
DashLoad ==
    /\ dashPc = "load"
    /\ dashDf' = load_dataset(selected_file, inputBucket[selected_file])
    /\ dashPc' = IF dashDf'.tag = "ok" THEN "render" ELSE "stopped"
    /\ UNCHANGED <<inputBucket, edits, batchVars, selected_file, numeric_cols,
                   dupPanel, batchPanel>>

\* lines 226-245: the Duplicate Rows panel
DuplicateRowsPanel(f) ==
    LET exact == Duplicated(f)
        text == Duplicated(AsTypeStr(f))
    IN IF exact.tag = "ok"
       THEN [kind |-> IF exact.n > 0 THEN "warning" ELSE "success",
             count |-> exact.n, approximate |-> FALSE, path |-> "exact"]
       ELSE IF text.tag = "ok"
       THEN [kind |-> IF text.n > 0 THEN "warning" ELSE "success",
             count |-> text.n, approximate |-> text.n > 0, path |-> "text"]
       ELSE [kind |-> "info", count |-> 0, approximate |-> FALSE,
             path |-> "unavailable"]

\* lines 311-319: the Batch Analytics Output section
BatchOutputPanel ==
    IF outExists
    THEN IF ReportName \in DOMAIN outObjects THEN "report" ELSE "not generated"
    ELSE "not available"

\* lines 160-319: the panels
DashRender ==
    /\ dashPc = "render"
    /\ numeric_cols' = SelectSeq(dashDf.df.cols,
                                 LAMBDA c : is_numeric_safe(dashDf.df, c))
    /\ dupPanel' = DuplicateRowsPanel(dashDf.df)
    /\ batchPanel' = BatchOutputPanel
    /\ dashPc' = "rendered"
    /\ UNCHANGED <<inputBucket, edits, batchVars, selected_file, dashDf>>

\* lines 141-143: Refresh Data clears the cache and reruns the script
DashRerun ==
    /\ dashPc \in {"rendered", "stopped"}
    /\ selected_file' = ""
    /\ dashPc' = "sidebar"
    /\ dashDf' = Raise("")
    /\ numeric_cols' = <<>>
    /\ dupPanel' = NoPanel
    /\ batchPanel' = "none"
    /\ UNCHANGED <<inputBucket, edits, batchVars>>

InitDash ==
    /\ inputBucket \in BucketsOf(DashNames, DashRaws, 1)
    /\ outExists \in BOOLEAN
    /\ outObjects \in IF outExists
                      THEN {NoObjects, Put(NoObjects, ReportName, StaleContent)}
                      ELSE {NoObjects}
    /\ BatchIdle
    /\ DashIdle

NextDash ==
    \/ DashSelect
    \/ DashLoad
    \/ DashRender
    \/ DashRerun

SpecDash == InitDash /\ [][NextDash]_vars

(***************************************************************************)
(* Properties.                                                             *)
(***************************************************************************)
NoInputData == "RuntimeError: No input files found"
IdentifierError == "ValueError: Identifier"
Loaded == dashPc \in {"render", "rendered", "stopped"}
SelectedRaw == inputBucket[selected_file]
IsDelimitedName(n) == EndsWith(Lower(n), ".csv") \/ EndsWith(Lower(n), ".tsv")
AllEncodings == {"utf-8"} \cup Range(FallbackEncodings)

\* no candidate delimiter yields more than one column, under any encoding
NoDelimiterSplits(raw) ==
    \A sep \in Range(Delimiters), enc \in AllEncodings :
        LET r == ReadCsv(raw, sep, enc)
        IN r.tag = "ok" => Len(r.df.cols) <= 1

AllHashable(f) ==
    \A i \in DOMAIN f.rows : \A c \in ColSet(f) : Hashable(f.rows[i][c])

\* C1: a batch run that failed, at whatever step, has left the content of
\* the output namespace as it was when the run started and has made no put;
\* a put is the last storage write of its run and stores the serialisation
\* of the report the run assembled in full.
C1_FailedRunLeavesReport ==
    /\ failure # "" => /\ outObjects = reportBefore
                       /\ "put_object" \notin Range(writes)
    /\ \A i \in DOMAIN writes :
          writes[i] = "put_object" =>
             /\ i = Len(writes)
             /\ pc \in {"done", "idle"}
             /\ pc = "done" => /\ report = ReportOf(df)
                               /\ outObjects[ReportName] = Serialize(report)

\* C1 witness: a run failed while computing the report (int() of a text
\* Identifier) when a report of an earlier run was in the output namespace
C1_Witness ==
    /\ failure = IdentifierError
    /\ pc = "failed"
    /\ ReportName \in DOMAIN reportBefore

\* C2: a run over an empty input namespace fails with NoInputData having
\* made no write to the output namespace, bucket creation included.
C2_EmptyInputWritesNothing ==
    failure = NoInputData => writes = <<>>

\* C3: a report is published only when the Loader loads every object of the
\* input namespace; one object the Loader rejects fails the run.
C3_UnloadableObjectFailsRun ==
    pc = "done" =>
        \A n \in DOMAIN runInput : load_dataset(n, runInput[n]).tag = "ok"

\* C4: the rows of the unified dataset are in ascending lexical order of
\* their source object name, whatever the order of the listing.
C4_RowsInLexicalOrder ==
    pc \in {"report", "publish", "done"} =>
        \A i, j \in DOMAIN df.rows :
            i < j => ~StrLess(df.rows[j]["source_file"].s,
                              df.rows[i]["source_file"].s)

\* C5: a .csv/.tsv file that no candidate delimiter splits into more than
\* one column, under any encoding, ends in ParseFailure.
C5_SingleColumnIsParseFailure ==
    (Loaded /\ IsDelimitedName(selected_file) /\ NoDelimiterSplits(SelectedRaw))
        => dashDf.tag = "raise"

\* C6: a .csv/.tsv file whose fields are separated by one of the candidate
\* delimiters and that has at least 2 columns loads into a dataset with the
\* source's column count.
C6_ColumnCountMatchesSource ==
    (Loaded /\ IsDelimitedName(selected_file) /\ ~SelectedRaw.empty
        /\ SelectedRaw.delim \in Range(Delimiters)
        /\ Len(SelectedRaw.header) >= 2)
        => /\ dashDf.tag = "ok"
           /\ Len(dashDf.df.cols) = Len(SelectedRaw.header)

\* C7: the run succeeds whatever the Identifier column is, and its report
\* has identifier_stats exactly when the unified dataset has a numeric
\* column named Identifier.
C7_IdentifierStatsIffNumeric ==
    /\ failure # IdentifierError
    /\ pc \in {"publish", "done"} =>
          ((report.identifier_stats # <<>>)
             <=> ("Identifier" \in ColSet(df)
                    /\ IsNumberDtype(df.dtypes["Identifier"])))

\* C8: the Duplicate Rows panel always produces an outcome: the exact count
\* when every cell is comparable, otherwise the count over the cells' text
\* flagged as approximate, otherwise "unavailable".
C8_DuplicateCountFlagged ==
    dashPc = "rendered" =>
        /\ dupPanel.kind # "none"
        /\ AllHashable(dashDf.df) =>
              /\ dupPanel.path = "exact"
              /\ ~dupPanel.approximate
              /\ dupPanel.count = CountDuplicated(dashDf.df.rows)
        /\ ~AllHashable(dashDf.df) =>
              \/ /\ dupPanel.path = "text"
                 /\ dupPanel.approximate
                 /\ dupPanel.count = CountDuplicated(AsTypeStr(dashDf.df).rows)
              \/ dupPanel.path = "unavailable"

\* C9: no column of dtype bool is listed in columns.numeric, and every
\* column of the unified dataset is listed exactly once, in exactly one of
\* columns.numeric and columns.categorical.
C9_BooleanNeverNumeric ==
    pc \in {"publish", "done"} =>
        LET numeric == report.columns.numeric
            categorical == report.columns.categorical
        IN /\ \A c \in ColSet(df) :
                 df.dtypes[c] = "bool" => c \notin Range(numeric)
           /\ \A c \in ColSet(df) :
                 (c \in Range(numeric)) # (c \in Range(categorical))
           /\ Range(numeric) \cup Range(categorical) = ColSet(df)
           /\ Len(numeric) + Len(categorical) = Len(df.cols)

\* C9 witness: a report was published for a dataset that has a bool column
\* next to a numeric one
C9_Witness ==
    /\ pc = "done"
    /\ \E c \in ColSet(df) : df.dtypes[c] = "bool"
    /\ report.columns.numeric # <<>>

\* C10: the output namespace holds at most the one report object, its
\* content after a successful run is the serialised report of that run's
\* input, and a run over the input of the last successful run leaves the
\* content byte-identical.
C10_RerunByteIdentical ==
    /\ DOMAIN outObjects \subseteq {ReportName}
    /\ pc = "done" => outObjects[ReportName] = Serialize(ReportOf(df))
    /\ (pc = "done" /\ prevRun # <<>> /\ prevRun[1].input = runInput)
          => outObjects[ReportName] = prevRun[1].content
====
